---------------------------- MODULE Spec2Model ----------------------------
(***************************************************************************)
(* Location adjacency-graph maintenance of instimap/locations/models.py.   *)
(*                                                                         *)
(* The Location table and the LocationLocationDistance table are the       *)
(* state.  Location.save and Location.delete are the operations.  The      *)
(* edge operations of UpdateAdjList (add_conns, delete_connections,        *)
(* delete_all_connections) and the nearest query live in modules that are  *)
(* not part of the source tree at hand; they are modelled from the         *)
(* specification's Distance Index / Spatial Query Engine contracts.        *)
(***************************************************************************)
EXTENDS Integers, Sequences, FiniteSets, TLC

\* ------------------------------------------------------------------ bounds
\* Number of Location.save / Location.delete / nearest calls in a behaviour.
MaxOps == 2

\* ------------------------------------------------------------- constants
\* LocationLocationDistance.distance default: "connected but unmeasured".
Sentinel == 100000000
\* None of an optional pixel coordinate (pixel coordinates are naturals here).
NoCoord == -1
\* None returned by QuerySet.first() (primary keys are positive here).
NoId == 0
\* None of the nullable IntegerField group_id (group ids are positive here).
NoGroup == 0
\* None of the nullable TextField connected_locs.
NoneStr == <<"None">>
\* The empty string.
EmptyStr == <<>>

\* Primary keys (uuid4 values) of the Location rows of the model.
Ids == {1, 2, 3, 4, 5}
\* Location names; a string is the sequence of its characters.  The empty
\* name is the one a Location saved without a name has.
Names == {<<>>, <<"A">>, <<"B">>, <<"C">>, <<"D">>}
\* Pixel coordinates a caller may give: none, or a point <<pixel_x, pixel_y>>.
NoPoint == <<NoCoord, NoCoord>>
Points == {NoPoint, <<0, 0>>, <<3, 4>>}
\* connected_locs values a caller may give.
Conns == { NoneStr, EmptyStr,
           <<"A">>, <<"B">>,
           <<"B", ",", "C">>, <<"B", ",", "A">>, <<"B", ",", "B">>,
           <<"B", ",">>, <<"Z", ",", "B">> }

\* ---------------------------------------------------------------- strings
\* Python truthiness of connected_locs: None and "" are falsy.
Truthy(s) == s # NoneStr /\ s # EmptyStr

\* str.split(","): "".split(",") = [""], "B,".split(",") = ["B", ""].
RECURSIVE Split(_)
Split(s) ==
    IF \A i \in 1..Len(s) : s[i] # ","
    THEN <<s>>
    ELSE LET i == CHOOSE k \in 1..Len(s) :
                      s[k] = "," /\ \A j \in 1..(k - 1) : s[j] # ","
         IN  <<SubSeq(s, 1, i - 1)>> \o Split(SubSeq(s, i + 1, Len(s)))

\* adj_data / old_instance_adj of Location.save.
AdjData(conn) == IF Truthy(conn) THEN Split(conn) ELSE <<>>

Range(q) == {q[i] : i \in 1..Len(q)}

\* ------------------------------------------------------------------ state
VARIABLES
    store,   \* Location table: primary key |-> [name, px, py, conn]
    edges,   \* LocationLocationDistance table: rows [l1, l2, d]
    nops,    \* number of calls made so far
    last,    \* the last call: its arguments, locals and outcome
    pc,      \* per request: where its Location.save stands
    loc      \* per request: the locals of its Location.save

vars == <<store, edges, nops, last, pc, loc>>

Stored == DOMAIN store

MkRec(inst) ==
    [name |-> inst.name, px |-> inst.px, py |-> inst.py, conn |-> inst.conn,
     reusable |-> inst.reusable, group_id |-> inst.group_id]

\* The reusable flag and the group_id an instance carries: those of its row
\* when it was loaded from one, the field defaults when it is new.
ReusableOf(st, i) == IF i \in DOMAIN st THEN st[i].reusable ELSE FALSE

GroupOf(st, i) == IF i \in DOMAIN st THEN st[i].group_id ELSE NoGroup

\* Location.objects.filter(name=n)
Matching(st, n) == {i \in DOMAIN st : st[i].name = n}

\* The rows .first() may return for each name.  Meta.ordering is ("name",), so
\* among rows of equal name the database decides; within one call the choice
\* is taken to be stable (no Location row is written before the call's end).
Picks(st) ==
    LET M == [n \in Names |-> IF Matching(st, n) = {} THEN {NoId} ELSE Matching(st, n)]
    IN  IF \A n \in Names : Cardinality(M[n]) = 1
        THEN {[n \in Names |-> CHOOSE i \in M[n] : TRUE]}
        ELSE {f \in [Names -> DOMAIN st \cup {NoId}] : \A n \in Names : f[n] \in M[n]}

\* Location.objects.filter(name=tok).first()
First(pick, tok) == IF tok \in Names THEN pick[tok] ELSE NoId

\* ------------------------------------------------- Distance Index (edges)
HasCoords(r) == r.px # NoCoord /\ r.py # NoCoord

ISqrt(n) == CHOOSE r \in 0..n : r * r <= n /\ n < (r + 1) * (r + 1)

Euclid(a, b) == ISqrt((a.px - b.px) * (a.px - b.px) + (a.py - b.py) * (a.py - b.py))

\* computedDistance: Euclidean when both endpoints have pixel coordinates.
ComputedDistance(a, b) ==
    IF HasCoords(a) /\ HasCoords(b) THEN Euclid(a, b) ELSE Sentinel

Joins(e, a, b) == (e.l1 = a /\ e.l2 = b) \/ (e.l1 = b /\ e.l2 = a)

Incident(e, a) == e.l1 = a \/ e.l2 = a

\* Mutant of UpsertEdge: the existing row is looked up as (a, b) only.
UpsertEdgeOrdered(E, a, b, d) ==
    IF \E e \in E : e.l1 = a /\ e.l2 = b
    THEN {IF e.l1 = a /\ e.l2 = b THEN [e EXCEPT !.d = d] ELSE e : e \in E}
    ELSE E \cup {[l1 |-> a, l2 |-> b, d |-> d]}

\* upsertEdge(a, b, d), a # b: overwrite the distance of the a-b edge or insert.
UpsertEdge(E, a, b, d) ==
    IF \E e \in E : Joins(e, a, b)
    THEN {IF Joins(e, a, b) THEN [e EXCEPT !.d = d] ELSE e : e \in E}
    ELSE E \cup {[l1 |-> a, l2 |-> b, d |-> d]}

\* removeAllEdgesFor(a)
RemoveAllEdgesFor(E, a) == {e \in E : ~Incident(e, a)}

\* ------------------------------------------------ UpdateAdjList (edges)
\* add_conns(loc1, connections): upsertEdge(loc1, c, computedDistance) for
\* each resolved connection in order; an unresolved one (None) is skipped; a
\* self-loop fails with InvalidEdge and leaves the earlier upserts in place
\* (the calls run in autocommit mode, outside any transaction).
RECURSIVE AddConnsFrom(_, _, _, _, _)
AddConnsFrom(E, st, self, conns, i) ==
    IF i > Len(conns) THEN [edges |-> E, err |-> "ok"]
    ELSE IF conns[i] = NoId THEN AddConnsFrom(E, st, self, conns, i + 1)
    ELSE IF conns[i] = self.id THEN [edges |-> E, err |-> "InvalidEdge"]
    ELSE AddConnsFrom(
             UpsertEdge(E, self.id, conns[i], ComputedDistance(self, st[conns[i]])),
             st, self, conns, i + 1)

AddConns(E, st, self, conns) == AddConnsFrom(E, st, self, conns, 1)

\* delete_connections(loc1, locs): removeEdge(loc1, l) for each l.
DeleteConnections(E, self, locs) ==
    {e \in E : ~\E l \in locs : Joins(e, self.id, l)}

\* delete_all_connections(loc)
DeleteAllConnections(E, self) == RemoveAllEdgesFor(E, self.id)

\* ---------------------------------------------------------- Location.save
\* deletedConnections = set(old_instance_adj) - set(adj_data)
DeletedConnections(old_adj, adj) == Range(old_adj) \ Range(adj)

\* Mutant of ResolveAll: the loop ends at the first name that matches no row.
ResolveAllStopAtNone(pick, adj) ==
    LET toks == SelectSeq(adj, LAMBDA t : t # EmptyStr)
        all  == [i \in 1..Len(toks) |-> First(pick, toks[i])]
        bad  == {i \in 1..Len(all) : all[i] = NoId}
    IN  IF bad = {} THEN all
        ELSE SubSeq(all, 1, (CHOOSE i \in bad : \A j \in bad : i <= j) - 1)

\* [first(name=loc) for loc in adj_data if loc]: None is kept for a name that
\* matches no row.
ResolveAll(pick, adj) ==
    LET toks == SelectSeq(adj, LAMBDA t : t # EmptyStr)
    IN  [i \in 1..Len(toks) |-> First(pick, toks[i])]

\* UpdatedConnectionsLoc of the update path.
UpdatedConnectionsLoc(pick, adj) == ResolveAll(pick, adj)

\* Mutant of FirstSaveConnections: only the first name of the list is resolved.
FirstSaveConnectionsHead(pick, adj) ==
    ResolveAll(pick, SubSeq(adj, 1, IF Len(adj) > 1 THEN 1 ELSE Len(adj)))

\* connections of the first-save path.
FirstSaveConnections(pick, adj) == ResolveAll(pick, adj)

\* deleted_connections_locs: the rows the deleted names resolve to.
DeletedConnectionsLocs(pick, deleted) ==
    {First(pick, t) : t \in deleted} \ {NoId}

\* Mutant of SuperSave: every row that has the instance's name is written too.
SuperSaveByName(st, inst) ==
    [i \in DOMAIN st \cup {inst.id} |->
        IF i = inst.id \/ st[i].name = inst.name THEN MkRec(inst) ELSE st[i]]

\* super().save(): insert or update the row with the instance's primary key.
SuperSave(st, inst) ==
    [i \in DOMAIN st \cup {inst.id} |-> IF i = inst.id THEN MkRec(inst) ELSE st[i]]

\* Whether save takes the update path: filter(name=self.name).exists().
NameExists(st, inst) == Matching(st, inst.name) # {}

\* The whole of Location.save on table contents (st, E): the tables afterwards
\* and the call's locals.  An exception of add_conns propagates out of save
\* before super().save(); what add_conns wrote before it stays written.
SaveResult(st, E, inst, pick) ==
    LET adj     == AdjData(inst.conn)
        upd     == NameExists(st, inst)
        old     == st[pick[inst.name]]
        old_adj == IF upd THEN AdjData(old.conn) ELSE <<>>
        deleted == IF upd THEN DeletedConnections(old_adj, adj) ELSE {}
        conns   == IF upd THEN UpdatedConnectionsLoc(pick, adj)
                          ELSE FirstSaveConnections(pick, adj)
        added   == AddConns(E, st, inst, conns)
        dels    == DeletedConnectionsLocs(pick, deleted)
        E2      == IF added.err = "ok" THEN DeleteConnections(added.edges, inst, dels)
                                       ELSE added.edges
    IN  [ store   |-> IF added.err = "ok" THEN SuperSave(st, inst) ELSE st,
          edges   |-> E2,
          path    |-> IF upd THEN "update" ELSE "first",
          old_id  |-> IF upd THEN pick[inst.name] ELSE NoId,
          old_adj |-> old_adj,
          conns   |-> conns,
          dels    |-> dels,
          outcome |-> added.err ]

\* -------------------------------------------------------- Location.delete
\* super().delete(): the row goes, and on_delete=CASCADE of location1 and
\* location2 removes every LocationLocationDistance row that references it.
SuperDelete(st, E, id) ==
    [ store |-> [i \in DOMAIN st \ {id} |-> st[i]],
      edges |-> {e \in E : ~Incident(e, id)} ]

\* Mutant of DeleteResult: only the rows that hold the Location as location1 go.
DeleteResultOneSided(st, E, inst) ==
    [ store |-> [i \in DOMAIN st \ {inst.id} |-> st[i]],
      edges |-> {e \in E : e.l1 # inst.id} ]

\* Location.delete: delete_all_connections(self), then super().delete().
DeleteResult(st, E, inst) ==
    SuperDelete(st, DeleteAllConnections(E, inst), inst.id)

\* ----------------------------------------------------------------- calls
NoInst == [id |-> NoId, name |-> EmptyStr, px |-> NoCoord, py |-> NoCoord, conn |-> NoneStr,
           reusable |-> FALSE, group_id |-> NoGroup]

NoLog == [ op |-> "none", inst |-> NoInst, path |-> "-", old_id |-> NoId,
           old_adj |-> <<>>, conns |-> <<>>, dels |-> {}, outcome |-> "-",
           store0 |-> <<>>, edges0 |-> {},
           point |-> NoPoint, k |-> 0, result |-> <<>>,
           origin |-> EmptyStr, dest |-> EmptyStr, from |-> NoId, to |-> NoId,
           dist |-> 0, group |-> NoGroup, listed |-> {} ]

\* The in-memory instance of a stored row.
Loaded(st, i) ==
    [id |-> i, name |-> st[i].name, px |-> st[i].px, py |-> st[i].py, conn |-> st[i].conn,
     reusable |-> st[i].reusable, group_id |-> st[i].group_id]

\* Primary keys a caller may save: a stored row's, or a new one (uuid4 values
\* are interchangeable, so the least unused one stands for any new key).
SaveIds(st, ids) ==
    (DOMAIN st \cap ids)
        \cup (IF ids \ DOMAIN st = {} THEN {}
              ELSE {CHOOSE i \in ids \ DOMAIN st : \A j \in ids \ DOMAIN st : i <= j})

\* One call of Location.save.
SaveCall(inst, pick) ==
    LET r == SaveResult(store, edges, inst, pick)
    IN  /\ store' = r.store
        /\ edges' = r.edges
        /\ last' = [NoLog EXCEPT !.op = "save", !.inst = inst, !.path = r.path,
                                 !.old_id = r.old_id, !.old_adj = r.old_adj,
                                 !.conns = r.conns, !.dels = r.dels,
                                 !.outcome = r.outcome,
                                 !.store0 = store, !.edges0 = edges]
        /\ UNCHANGED <<pc, loc>>

\* One call of Location.delete on a stored row.
DeleteCall(id) ==
    LET inst == Loaded(store, id)
        r == DeleteResult(store, edges, inst)
    IN  /\ store' = r.store
        /\ edges' = r.edges
        /\ last' = [NoLog EXCEPT !.op = "delete", !.inst = inst, !.outcome = "ok",
                                 !.store0 = store, !.edges0 = edges]
        /\ UNCHANGED <<pc, loc>>

\* ------------------------------------------------- Spatial Query Engine
\* Square of the Euclidean distance from a point to a Location's pixel
\* coordinates; the square root is monotone, so it orders as the distance.
DistSq(pt, r) == (r.px - pt[1]) * (r.px - pt[1]) + (r.py - pt[2]) * (r.py - pt[2])

\* Locations lacking pixel coordinates are excluded from consideration.
Candidates(st) == {i \in DOMAIN st : HasCoords(st[i])}

\* Name order (Meta.ordering) of the model's names, then primary key.
NameOrder == <<<<>>, <<"A">>, <<"B">>, <<"C">>, <<"D">>>>

NameRank(n) == CHOOSE r \in 1..Len(NameOrder) : NameOrder[r] = n

TieBefore(st, i, j) ==
    \/ NameRank(st[i].name) < NameRank(st[j].name)
    \/ st[i].name = st[j].name /\ i < j

\* Mutant of Closer: the distance is left out of the order.
CloserByName(st, pt, i, j) == TieBefore(st, i, j)

\* Whether candidate i comes before candidate j: smaller distance first, ties
\* by name order.
Closer(st, pt, i, j) ==
    \/ DistSq(pt, st[i]) < DistSq(pt, st[j])
    \/ DistSq(pt, st[i]) = DistSq(pt, st[j]) /\ TieBefore(st, i, j)

RECURSIVE NearestFrom(_, _, _, _)
NearestFrom(st, pt, k, left) ==
    IF k = 0 \/ left = {} THEN <<>>
    ELSE LET m == CHOOSE i \in left : \A j \in left \ {i} : Closer(st, pt, i, j)
         IN  <<m>> \o NearestFrom(st, pt, k - 1, left \ {m})

\* nearest(point, k): the k candidates closest to the point, closest first.
Nearest(st, pt, k) == NearestFrom(st, pt, k, Candidates(st))

\* One nearest query.
NearestCall(pt, k) ==
    /\ last' = [NoLog EXCEPT !.op = "nearest", !.point = pt, !.k = k,
                             !.result = Nearest(store, pt, k), !.outcome = "ok",
                             !.store0 = store, !.edges0 = edges]
    /\ UNCHANGED <<store, edges, pc, loc>>

\* ------------------------------------------------------ Location listing
\* Mutant of ListLocations: the exclusion is a plain SQL "group_id <> g",
\* which is not true of a row whose group_id is NULL.
ListLocationsSqlNotEqual(st, g) ==
    {i \in DOMAIN st : /\ st[i].reusable
                       /\ (g # NoGroup => (st[i].group_id # NoGroup /\ st[i].group_id # g))}

\* GET /api/locations[?exclude_group=g]: filter(reusable=True), and
\* exclude(group_id=g) when a group is given (g = NoGroup: none is given).
ListLocations(st, g) ==
    {i \in DOMAIN st : st[i].reusable /\ (g # NoGroup => st[i].group_id # g)}

\* One listing request.
ListCall(g) ==
    /\ last' = [NoLog EXCEPT !.op = "list", !.group = g,
                             !.listed = ListLocations(store, g), !.outcome = "ok",
                             !.store0 = store, !.edges0 = edges]
    /\ UNCHANGED <<store, edges, pc, loc>>

\* shortestPath(origin, destination): Dijkstra over the edge rows.
\* The distance of a Location not reached (yet).
NoDist == -1

\* The Locations joined to u by an edge row.
NeighborsOf(E, u) == {v \in Ids : v # u /\ \E e \in E : Joins(e, u, v)}

\* The distance of the edge that joins u and v.
EdgeDist(E, u, v) == (CHOOSE e \in E : Joins(e, u, v)).d

\* Mutant of Relax: a distance once set is never improved.
RelaxFirstReached(old, new) == IF old = NoDist THEN new ELSE old

\* The tentative distance of a Location after a route of length new is found.
Relax(old, new) == IF old = NoDist \/ new < old THEN new ELSE old

\* Dijkstra's loop: settle the closest reached Location that is not done and
\* relax its neighbors, until no reached Location is left.
RECURSIVE DijkstraFrom(_, _, _, _)
DijkstraFrom(V, E, dist, done) ==
    LET open == {v \in V \ done : dist[v] # NoDist}
    IN  IF open = {} THEN dist
        ELSE LET u == CHOOSE v \in open : \A w \in open : dist[v] <= dist[w]
                 nb == NeighborsOf(E, u) \cap (V \ (done \cup {u}))
             IN  DijkstraFrom(V, E,
                     [v \in V |-> IF v \in nb
                                  THEN Relax(dist[v], dist[u] + EdgeDist(E, u, v))
                                  ELSE dist[v]],
                     done \cup {u})

Dijkstra(st, E, o) ==
    DijkstraFrom(DOMAIN st, E, [v \in DOMAIN st |-> IF v = o THEN 0 ELSE NoDist], {})

\* shortestPath(origin, destination) by name: UnknownLocation when a name
\* does not resolve, NoPath when the destination is not reached.
ShortestPath(st, E, pick, origin, dest) ==
    LET o == First(pick, origin)
        d == First(pick, dest)
    IN  IF o = NoId \/ d = NoId
        THEN [outcome |-> "UnknownLocation", from |-> o, to |-> d, dist |-> NoDist]
        ELSE LET far == Dijkstra(st, E, o)[d]
             IN  [outcome |-> IF far = NoDist THEN "NoPath" ELSE "ok",
                  from |-> o, to |-> d, dist |-> far]

\* One shortest-path query.
ShortestPathCall(pick, origin, dest) ==
    LET r == ShortestPath(store, edges, pick, origin, dest)
    IN  /\ last' = [NoLog EXCEPT !.op = "path", !.origin = origin, !.dest = dest,
                                 !.from = r.from, !.to = r.to, !.dist = r.dist,
                                 !.outcome = r.outcome,
                                 !.store0 = store, !.edges0 = edges]
        /\ UNCHANGED <<store, edges, pc, loc>>

\* ------------------------------------------- Location.save, query by query
\* Two requests run Location.save at the same time.  Nothing in save takes a
\* lock or opens a transaction, so each database query or write of a request
\* is a step of its own and the steps of the two requests interleave.
Procs == {1, 2}

NoSnap == [id |-> NoId, px |-> NoCoord, py |-> NoCoord]

\* The object that first() returned: the row's fields at the time of the query.
Snap(st, i) == [id |-> i, px |-> st[i].px, py |-> st[i].py]

NoLocals == [ inst |-> NoInst, adj |-> <<>>, upd |-> FALSE, old_adj |-> <<>>,
              deleted |-> {}, conns |-> <<>>, ai |-> 1, todel |-> {},
              dels |-> {}, outcome |-> "-" ]

\* The names of adj_data that are looked up (the "if loc" of both loops).
Toks(adj) == SelectSeq(adj, LAMBDA t : t # EmptyStr)

\* save() is entered: adj_data is computed from self.connected_locs.
StepBegin(p, inst) ==
    /\ pc[p] = "idle"
    /\ nops < MaxOps
    /\ nops' = nops + 1
    /\ loc' = [loc EXCEPT ![p] = [NoLocals EXCEPT !.inst = inst, !.adj = AdjData(inst.conn)]]
    /\ pc' = [pc EXCEPT ![p] = "exists"]
    /\ UNCHANGED <<store, edges, last>>

\* if Location.objects.filter(name=self.name).exists(): ... else: if adj_data:
StepExists(p) ==
    /\ pc[p] = "exists"
    /\ LET upd == NameExists(store, loc[p].inst)
       IN  /\ loc' = [loc EXCEPT ![p].upd = upd]
           /\ pc' = [pc EXCEPT ![p] = IF upd THEN "first"
                                      ELSE IF loc[p].adj # <<>> THEN "resolve"
                                      ELSE "write"]
    /\ UNCHANGED <<store, edges, nops, last>>

\* old_instance = filter(name=self.name).first(); old_instance.connected_locs
\* raises AttributeError when the row has gone since exists().
StepFirst(p) ==
    /\ pc[p] = "first"
    /\ IF Matching(store, loc[p].inst.name) = {}
       THEN /\ loc' = [loc EXCEPT ![p].outcome = "AttributeError"]
            /\ pc' = [pc EXCEPT ![p] = "done"]
       ELSE \E o \in Matching(store, loc[p].inst.name) :
               LET old_adj == AdjData(store[o].conn)
                   deleted == DeletedConnections(old_adj, loc[p].adj)
               IN  /\ loc' = [loc EXCEPT ![p].old_adj = old_adj,
                                         ![p].deleted = deleted,
                                         ![p].todel = deleted]
                   /\ pc' = [pc EXCEPT ![p] = "resolve"]
    /\ UNCHANGED <<store, edges, nops, last>>

\* One Location.objects.filter(name=loc).first() of the loop over adj_data;
\* after the last one add_conns is called.
StepResolve(p) ==
    /\ pc[p] = "resolve"
    /\ LET toks == Toks(loc[p].adj)
           i == Len(loc[p].conns) + 1
       IN  IF i > Len(toks)
           THEN /\ pc' = [pc EXCEPT ![p] = "add"]
                /\ loc' = loc
           ELSE /\ \E m \in (IF Matching(store, toks[i]) = {} THEN {NoId}
                               ELSE Matching(store, toks[i])) :
                      loc' = [loc EXCEPT ![p].conns =
                                 Append(@, IF m = NoId THEN NoSnap ELSE Snap(store, m))]
                /\ pc' = pc
    /\ UNCHANGED <<store, edges, nops, last>>

\* Where save goes on after add_conns has returned.
AfterAdd(l) ==
    IF l.upd /\ l.deleted # {} THEN "resolve_del"
    ELSE "write"

\* One connection of add_conns: skipped when None, InvalidEdge when it is the
\* Location itself, else upsertEdge with the computed distance.
StepAdd(p) ==
    /\ pc[p] = "add"
    /\ LET l == loc[p]
       IN  IF l.ai > Len(l.conns)
           THEN /\ pc' = [pc EXCEPT ![p] = AfterAdd(l)]
                /\ UNCHANGED <<loc, edges>>
           ELSE LET c == l.conns[l.ai]
                IN  IF c.id = NoId
                    THEN /\ loc' = [loc EXCEPT ![p].ai = @ + 1]
                         /\ UNCHANGED <<pc, edges>>
                    ELSE IF c.id = l.inst.id
                    THEN /\ loc' = [loc EXCEPT ![p].outcome = "InvalidEdge"]
                         /\ pc' = [pc EXCEPT ![p] = "done"]
                         /\ UNCHANGED edges
                    ELSE /\ edges' = UpsertEdge(edges, l.inst.id, c.id,
                                                ComputedDistance(l.inst, c))
                         /\ loc' = [loc EXCEPT ![p].ai = @ + 1]
                         /\ UNCHANGED pc
    /\ UNCHANGED <<store, nops, last>>

\* One Location.objects.filter(name=loc).first() of the loop over
\* deletedConnections; after the last one delete_connections is called.
StepResolveDel(p) ==
    /\ pc[p] = "resolve_del"
    /\ IF loc[p].todel = {}
       THEN /\ pc' = [pc EXCEPT ![p] = "delete_conns"]
            /\ loc' = loc
       ELSE /\ \E t \in loc[p].todel :
                 \E m \in (IF t \in Names /\ Matching(store, t) # {}
                            THEN Matching(store, t) ELSE {NoId}) :
                     loc' = [loc EXCEPT ![p].todel = @ \ {t},
                                       ![p].dels = @ \cup ({m} \ {NoId})]
            /\ pc' = pc
    /\ UNCHANGED <<store, edges, nops, last>>

\* delete_connections(self, deleted_connections_locs)
StepDeleteConns(p) ==
    /\ pc[p] = "delete_conns"
    /\ edges' = DeleteConnections(edges, loc[p].inst, loc[p].dels)
    /\ pc' = [pc EXCEPT ![p] = "write"]
    /\ UNCHANGED <<store, nops, last, loc>>

\* super().save(*args, **kwargs)
StepWrite(p) ==
    /\ pc[p] = "write"
    /\ store' = SuperSave(store, loc[p].inst)
    /\ loc' = [loc EXCEPT ![p].outcome = "ok"]
    /\ pc' = [pc EXCEPT ![p] = "done"]
    /\ UNCHANGED <<edges, nops, last>>

\* ------------------------------------------------------------- fixtures
\* The tables a behaviour starts from are those a setUp of plain
\* Location.objects.create calls leaves, computed by the model's own save.
LocA == [id |-> 1, name |-> <<"A">>, px |-> 0, py |-> 0, conn |-> NoneStr,
         reusable |-> FALSE, group_id |-> NoGroup]
LocB == [id |-> 2, name |-> <<"B">>, px |-> 3, py |-> 4, conn |-> NoneStr,
         reusable |-> FALSE, group_id |-> NoGroup]
LocC == [id |-> 3, name |-> <<"C">>, px |-> NoCoord, py |-> NoCoord, conn |-> NoneStr,
         reusable |-> FALSE, group_id |-> NoGroup]
LocD == [id |-> 4, name |-> <<"D">>, px |-> 0, py |-> 4, conn |-> NoneStr,
         reusable |-> FALSE, group_id |-> NoGroup]

\* Location A with the list "B".
LocAb == [LocA EXCEPT !.conn = <<"B">>]

RECURSIVE RunFrom(_, _, _, _)
RunFrom(script, i, st, E) ==
    IF i > Len(script) THEN [store |-> st, edges |-> E]
    ELSE LET r == SaveResult(st, E, script[i], CHOOSE p \in Picks(st) : TRUE)
         IN  RunFrom(script, i + 1, r.store, r.edges)

RunFixture(script) == RunFrom(script, 1, <<>>, {})

Fixtures == {<<>>, <<LocA>>, <<LocA, LocB>>, <<LocA, LocB, LocC>>}

InitFrom(fixtures) ==
    /\ \E f \in fixtures : /\ store = RunFixture(f).store
                           /\ edges = RunFixture(f).edges
    /\ nops = 0
    /\ last = NoLog
    /\ pc = [p \in Procs |-> "idle"]
    /\ loc = [p \in Procs |-> NoLocals]

\* ------------------------------------------------------ specification Spec
\* Callers rename Locations and rewrite their neighbor lists; the pixel
\* coordinates stay as created (a new Location has none).
GraphIds == {1, 2, 3}

GraphNames == {<<"A">>, <<"B">>, <<"C">>}

GraphInsts(st) ==
    {[id |-> i, name |-> n,
      px |-> IF i \in DOMAIN st THEN st[i].px ELSE NoCoord,
      py |-> IF i \in DOMAIN st THEN st[i].py ELSE NoCoord,
      conn |-> c, reusable |-> ReusableOf(st, i), group_id |-> GroupOf(st, i)] :
        i \in SaveIds(st, GraphIds), n \in GraphNames, c \in Conns}

Save ==
    /\ nops < MaxOps
    /\ \E pick \in Picks(store) : \E inst \in GraphInsts(store) : SaveCall(inst, pick)
    /\ nops' = nops + 1

Delete ==
    /\ nops < MaxOps
    /\ \E id \in Stored : DeleteCall(id)
    /\ nops' = nops + 1

Init == InitFrom(Fixtures)

Next == Save \/ Delete

Spec == Init /\ [][Next]_vars

\* -------------------------------------------------- specification SpecDist
\* Callers move Locations (any pixel coordinates) and rewrite their lists;
\* a stored Location keeps its name, a new one takes the name of its fixture.
DistIds == {1, 2, 3}

DistConns == {NoneStr, <<"A">>, <<"B">>, <<"C">>}

FixtureName(i) == (1 :> <<"A">> @@ 2 :> <<"B">> @@ 3 :> <<"C">> @@ 4 :> <<"D">> @@ 5 :> <<"A">>)[i]

DistInsts(st) ==
    {[id |-> i, name |-> IF i \in DOMAIN st THEN st[i].name ELSE FixtureName(i),
      px |-> p[1], py |-> p[2], conn |-> c,
      reusable |-> ReusableOf(st, i), group_id |-> GroupOf(st, i)] :
        i \in SaveIds(st, DistIds), p \in Points, c \in DistConns}

SaveDist ==
    /\ nops < MaxOps
    /\ \E pick \in Picks(store) : \E inst \in DistInsts(store) : SaveCall(inst, pick)
    /\ nops' = nops + 1

NextDist == SaveDist \/ Delete

SpecDist == Init /\ [][NextDist]_vars

\* ----------------------------------------------- specification SpecNearest
\* As SpecDist, with nearest queries, and also from the tables of
\* test_nearest_points (three Locations on a line) beside a fourth Location
\* without pixel coordinates.  The test's pixel coordinates (2000, 2000),
\* (2001, 2000), (2002, 2000) are taken relative to (2000, 2000).
Near1 == [id |-> 1, name |-> <<"A">>, px |-> 0, py |-> 0, conn |-> NoneStr,
         reusable |-> FALSE, group_id |-> NoGroup]
Near2 == [id |-> 2, name |-> <<"B">>, px |-> 1, py |-> 0, conn |-> NoneStr,
         reusable |-> FALSE, group_id |-> NoGroup]
Near3 == [id |-> 3, name |-> <<"C">>, px |-> 2, py |-> 0, conn |-> NoneStr,
         reusable |-> FALSE, group_id |-> NoGroup]
Near4 == [id |-> 4, name |-> <<"D">>, px |-> NoCoord, py |-> NoCoord, conn |-> NoneStr,
         reusable |-> FALSE, group_id |-> NoGroup]

NearFixtures == Fixtures \cup {<<Near1, Near2, Near3, Near4>>}

QueryPoints == {<<0, 0>>, <<2, 0>>, <<3, 4>>, <<1, 1>>}

QueryKs == {1, 2, 3}

NearestQuery ==
    /\ nops < MaxOps
    /\ \E pt \in QueryPoints : \E k \in QueryKs : NearestCall(pt, k)
    /\ nops' = nops + 1

InitNearest == InitFrom(NearFixtures)

NextNearest == SaveDist \/ Delete \/ NearestQuery

SpecNearest == InitNearest /\ [][NextNearest]_vars

\* ------------------------------------------------- specification SpecCoord
\* Locations A and B are created and moved; their lists name B, or A and B.
CoordFixtures == {<<LocB>>, <<LocA, LocB>>, <<LocB, LocAb>>}

CoordConns == {NoneStr, <<"B">>, <<"A", ",", "B">>}

CoordInsts(st) ==
    {[id |-> i, name |-> FixtureName(i), px |-> p[1], py |-> p[2], conn |-> c,
      reusable |-> ReusableOf(st, i), group_id |-> GroupOf(st, i)] :
        i \in {1, 2}, p \in Points \cup {<<0, 4>>}, c \in CoordConns}

SaveCoord ==
    /\ nops < MaxOps
    /\ \E pick \in Picks(store) : \E inst \in CoordInsts(store) : SaveCall(inst, pick)
    /\ nops' = nops + 1

InitCoord == InitFrom(CoordFixtures)

NextCoord == SaveCoord \/ Delete

SpecCoord == InitCoord /\ [][NextCoord]_vars

\* ------------------------------------------------- specification SpecEmpty
\* Lists with empty entries and a Location saved without a name: A with the
\* list "B," beside B and a nameless Location whose list names A.
LocAbComma == [LocA EXCEPT !.conn = <<"B", ",">>]

LocNameless == [LocC EXCEPT !.name = EmptyStr, !.conn = <<"A">>]

EmptyFixtures == {<<LocA, LocB>>, <<LocB, LocAbComma>>, <<LocB, LocAbComma, LocNameless>>}

EmptyConns == {NoneStr, EmptyStr, <<"A">>, <<"B">>, <<"B", ",">>, <<",", "B">>}

EmptyName(i) == (1 :> <<"A">> @@ 2 :> <<"B">> @@ 3 :> EmptyStr)[i]

EmptyInsts(st) ==
    {[id |-> i, name |-> EmptyName(i),
      px |-> IF i \in DOMAIN st THEN st[i].px ELSE NoCoord,
      py |-> IF i \in DOMAIN st THEN st[i].py ELSE NoCoord,
      conn |-> c, reusable |-> ReusableOf(st, i), group_id |-> GroupOf(st, i)] :
        i \in {1, 2, 3}, c \in EmptyConns}

SaveEmpty ==
    /\ nops < MaxOps
    /\ \E pick \in Picks(store) : \E inst \in EmptyInsts(store) : SaveCall(inst, pick)
    /\ nops' = nops + 1

InitEmpty == InitFrom(EmptyFixtures)

NextEmpty == SaveEmpty \/ Delete

SpecEmpty == InitEmpty /\ [][NextEmpty]_vars

\* -------------------------------------------------- specification SpecList
\* Listing requests between saves that set the reusable flag and the
\* group_id, also from the tables of test_location_get: a reusable Location
\* without group, a Location of group 1 that is not reusable, and reusable
\* Locations of groups 1 and 3.
Groups == {1, 2, 3}

ListA == [LocA EXCEPT !.reusable = TRUE]

ListB == [LocB EXCEPT !.group_id = 1]

ListC == [LocC EXCEPT !.reusable = TRUE, !.group_id = 1]

ListD == [LocD EXCEPT !.reusable = TRUE, !.group_id = 3]

ListFixtures == Fixtures \cup {<<ListA, ListB, ListC, ListD>>}

ListInsts(st) ==
    {[id |-> i, name |-> IF i \in DOMAIN st THEN st[i].name ELSE FixtureName(i),
      px |-> IF i \in DOMAIN st THEN st[i].px ELSE NoCoord,
      py |-> IF i \in DOMAIN st THEN st[i].py ELSE NoCoord,
      conn |-> IF i \in DOMAIN st THEN st[i].conn ELSE NoneStr,
      reusable |-> r, group_id |-> g] :
        i \in SaveIds(st, Ids), r \in BOOLEAN, g \in Groups \cup {NoGroup}}

SaveList ==
    /\ nops < MaxOps
    /\ \E pick \in Picks(store) : \E inst \in ListInsts(store) : SaveCall(inst, pick)
    /\ nops' = nops + 1

ListQuery ==
    /\ nops < MaxOps
    /\ \E g \in Groups \cup {NoGroup} : ListCall(g)
    /\ nops' = nops + 1

InitList == InitFrom(ListFixtures)

NextList == SaveList \/ Delete \/ ListQuery

SpecList == InitList /\ [][NextList]_vars

\* -------------------------------------------------- specification SpecPath
\* Saves, deletes and shortest-path queries, also from a graph in which the
\* Location reached first over D is closer over B: A (0,0), D (0,4), B (3,4)
\* and C (4,4), with edges A-D 4, A-B 5, D-C 4, B-C 1.
PathD == [LocD EXCEPT !.conn = <<"A">>]

PathB == [LocB EXCEPT !.conn = <<"A">>]

PathC == [LocC EXCEPT !.px = 4, !.py = 4, !.conn = <<"B", ",", "D">>]

PathFixtures == Fixtures \cup {<<LocA, PathD, PathB, PathC>>}

PathQuery ==
    /\ nops < MaxOps
    /\ \E pick \in Picks(store) : \E o \in Names : \E d \in Names :
           ShortestPathCall(pick, o, d)
    /\ nops' = nops + 1

InitPath == InitFrom(PathFixtures)

NextPath == SaveDist \/ Delete \/ PathQuery

SpecPath == InitPath /\ [][NextPath]_vars

\* -------------------------------------------------- specification SpecConc
\* Location A is stored with the list "B" beside B and C; each of the two
\* requests saves A once, with a list of its choice.
ConcFixture == <<LocB, LocC, LocAb>>

ConcConns == {NoneStr, <<"B">>, <<"C">>, <<"B", ",", "C">>}

ConcInsts == {[LocA EXCEPT !.conn = c] : c \in ConcConns}

ConcBegin == \E p \in Procs : \E inst \in ConcInsts : StepBegin(p, inst)

ConcExists == \E p \in Procs : StepExists(p)

ConcFirst == \E p \in Procs : StepFirst(p)

ConcResolve == \E p \in Procs : StepResolve(p)

ConcAdd == \E p \in Procs : StepAdd(p)

ConcResolveDel == \E p \in Procs : StepResolveDel(p)

ConcDeleteConns == \E p \in Procs : StepDeleteConns(p)

ConcWrite == \E p \in Procs : StepWrite(p)

InitConc == InitFrom({ConcFixture})

NextConc ==
    \/ ConcBegin \/ ConcExists \/ ConcFirst \/ ConcResolve \/ ConcAdd
    \/ ConcResolveDel \/ ConcDeleteConns \/ ConcWrite

SpecConc == InitConc /\ [][NextConc]_vars

\* The tables after save(first) and then save(second), run one after the
\* other from the tables of ConcFixture.
Serial(first, second) ==
    LET s0 == RunFixture(ConcFixture)
        r1 == SaveResult(s0.store, s0.edges, first, CHOOSE q \in Picks(s0.store) : TRUE)
        r2 == SaveResult(r1.store, r1.edges, second, CHOOSE q \in Picks(r1.store) : TRUE)
    IN  <<r2.store, r2.edges>>

\* -------------------------------------------------- specification SpecStep
\* Saves that run query by query, of the stored Location A and of a new
\* Location D, while a spatial query reads the two tables.
StepInsts ==
    {[LocA EXCEPT !.conn = c] : c \in {NoneStr, <<"C">>, <<"B", ",", "C">>}}
        \cup {[LocD EXCEPT !.conn = <<"B">>]}

StepStart == \E p \in Procs : \E inst \in StepInsts : StepBegin(p, inst)

\* A spatial query reads the Location table and the edge table in one
\* snapshot; one query is followed per behaviour.
ReadGraph ==
    /\ last.op = "none"
    /\ last' = [NoLog EXCEPT !.op = "read", !.outcome = "ok",
                             !.store0 = store, !.edges0 = edges]
    /\ UNCHANGED <<store, edges, nops, pc, loc>>

NextStep ==
    \/ StepStart \/ ConcExists \/ ConcFirst \/ ConcResolve \/ ConcAdd
    \/ ConcResolveDel \/ ConcDeleteConns \/ ConcWrite \/ ReadGraph

SpecStep == InitConc /\ [][NextStep]_vars

\* --------------------------------------------------- specification SpecUpd
\* Location A is stored with the list "B,C" beside B, C and D; callers then
\* save Locations named A or B with the lists None, "B,C" and "C,D".
LocAbc == [LocA EXCEPT !.conn = <<"B", ",", "C">>]

UpdFixtures == {<<LocB, LocC, LocD, LocAbc>>}

UpdConns == {NoneStr, <<"B", ",", "C">>, <<"C", ",", "D">>}

UpdNames == {<<"A">>, <<"B">>}

UpdInsts(st) ==
    {[id |-> i, name |-> n,
      px |-> IF i \in DOMAIN st THEN st[i].px ELSE NoCoord,
      py |-> IF i \in DOMAIN st THEN st[i].py ELSE NoCoord,
      conn |-> c, reusable |-> ReusableOf(st, i), group_id |-> GroupOf(st, i)] :
        i \in SaveIds(st, Ids), n \in UpdNames, c \in UpdConns}

SaveUpd ==
    /\ nops < MaxOps
    /\ \E pick \in Picks(store) : \E inst \in UpdInsts(store) : SaveCall(inst, pick)
    /\ nops' = nops + 1

InitUpd == InitFrom(UpdFixtures)

NextUpd == SaveUpd \/ Delete

SpecUpd == InitUpd /\ [][NextUpd]_vars

\* ------------------------------------------------------------ properties
\* The unordered pairs that have an edge row.
EdgePairs(E) == {{e.l1, e.l2} : e \in E}

\* The non-empty names of a connected_locs value.
DeclaredNames(conn) == Range(AdjData(conn)) \ {EmptyStr}

\* The declared-neighbor lists of all stored Locations, resolved by name
\* against the stored Locations.
Materialization(st) ==
    UNION {{{i, j} : j \in {k \in DOMAIN st \ {i} :
                                st[k].name \in DeclaredNames(st[i].conn)}} :
           i \in DOMAIN st}

IsSave == last.op = "save"

IsDelete == last.op = "delete"

\* No two stored Locations share a name.
NamesUnique(st) == \A i \in DOMAIN st : \A j \in DOMAIN st : st[i].name = st[j].name => i = j

\* C1: at every quiescent state the edge set is exactly the materialization
\* of the declared-neighbor lists of the stored Locations.  Every state of
\* Spec lies between two calls; the equality holds of the initial tables, so
\* the claim has every call preserve it, in particular a call that returns
\* normally and leaves the stored names distinct.
C1_EdgesEqualDeclared ==
    ( /\ last.outcome = "ok"
      /\ NamesUnique(store)
      /\ EdgePairs(last.edges0) = Materialization(last.store0) )
        => EdgePairs(edges) = Materialization(store)

\* C3: deleting Location L leaves no edge with L as an endpoint and leaves
\* every other edge row as it was.
C3_DeletePurges ==
    IsDelete =>
        /\ \A e \in edges : ~Incident(e, last.inst.id)
        /\ edges = {e \in last.edges0 : ~Incident(e, last.inst.id)}
        /\ last.inst.id \notin Stored

\* C3 witness: a Location with an empty list of its own, whose edge another
\* Location declared, was deleted, and an edge between two others remains.
C3_Witness ==
    /\ IsDelete
    /\ ~Truthy(last.inst.conn)
    /\ \E e \in last.edges0 : Incident(e, last.inst.id)
    /\ edges # {}

\* C4: a save whose declared-neighbor list contains the Location's own name
\* is rejected with InvalidEdge (nothing is stored), and no edge joins a
\* Location with itself.
C4_SelfReferenceRejected ==
    /\ (IsSave /\ last.inst.name \in DeclaredNames(last.inst.conn))
          => (last.outcome = "InvalidEdge" /\ store = last.store0)
    /\ \A e \in edges : e.l1 # e.l2

\* C5: there is at most one edge row per unordered pair of Locations.
C5_OneEdgePerPair ==
    \A e1 \in edges : \A e2 \in edges :
        {e1.l1, e1.l2} = {e2.l1, e2.l2} => e1 = e2

\* C5 witness: a save upserted an edge whose row the other endpoint's save
\* had inserted (the row is stored in the other orientation).
C5_Witness ==
    /\ IsSave /\ last.outcome = "ok"
    /\ \E e \in last.edges0 :
          /\ e.l2 = last.inst.id
          /\ e.l1 \in Range(last.conns)
          /\ e \in edges

\* C6: a save or delete that fails leaves the Location table and the edge
\* table as they were before the call.
C6_FailureLeavesNoTrace ==
    (last.op \in {"save", "delete"} /\ last.outcome # "ok")
        => (store = last.store0 /\ edges = last.edges0)

\* The names of a save's list that match no stored Location.
UnresolvedNames(l) == {t \in DeclaredNames(l.inst.conn) : Matching(l.store0, t) = {}}

\* The Locations a save's list resolves to.
ResolvedLocs(l) == {i \in DOMAIN l.store0 : l.store0[i].name \in DeclaredNames(l.inst.conn)}

\* What C8 says of the edge table after a save with an unresolved name.
C8_EdgesAsIfNameAbsent ==
    /\ \A t \in DeclaredNames(last.inst.conn) :
          Matching(last.store0, t) # {} =>
              \E c \in Matching(last.store0, t) : \E e \in edges :
                  /\ Joins(e, last.inst.id, c)
                  /\ e.d = ComputedDistance(last.inst, last.store0[c])
    /\ \A e \in edges :
          /\ e.l1 \in DOMAIN store /\ e.l2 \in DOMAIN store
          /\ (e \notin last.edges0 =>
                 \E c \in ResolvedLocs(last) : Joins(e, last.inst.id, c))

\* C8 as stated: a save whose list contains a name that matches no stored
\* Location does not fail, creates no edge for that name, and upserts the
\* edge of every resolvable name of the list.
C8_UnresolvedNeverFails ==
    (IsSave /\ UnresolvedNames(last) # {})
        => (last.outcome = "ok" /\ C8_EdgesAsIfNameAbsent)

\* C8 amended: such a save fails only when its list also names the saved
\* Location itself (InvalidEdge); otherwise it succeeds, creates no edge for
\* the unresolved name and upserts the edge of every resolvable name.
C8_UnresolvedSkipped ==
    (IsSave /\ UnresolvedNames(last) # {})
        => /\ last.outcome # "ok" => last.inst.id \in ResolvedLocs(last)
           /\ last.outcome = "ok" => C8_EdgesAsIfNameAbsent

\* C8 witness: a first save with an unresolved and a resolvable name has
\* written the edge of the resolvable one.
C8_Witness ==
    /\ IsSave /\ last.path = "first" /\ last.outcome = "ok"
    /\ UnresolvedNames(last) # {}
    /\ ResolvedLocs(last) # {}
    /\ edges # last.edges0

\* The same on the update path.
C8_WitnessUpdate ==
    /\ IsSave /\ last.path = "update" /\ last.outcome = "ok"
    /\ UnresolvedNames(last) # {}
    /\ ResolvedLocs(last) # {}
    /\ edges # last.edges0

\* The edge rows that join x and y.
RowsOf(E, x, y) == {e \in E : Joins(e, x, y)}

\* The C2 case: a stored Location, keeping its name, has its list changed
\* from {b, c} to {c, d}, three names of stored Locations other than its own.
C2_Case ==
    /\ IsSave
    /\ last.inst.id \in DOMAIN last.store0
    /\ last.store0[last.inst.id].name = last.inst.name
    /\ LET O == DeclaredNames(last.store0[last.inst.id].conn)
           N == DeclaredNames(last.inst.conn)
       IN  /\ Cardinality(O) = 2 /\ Cardinality(N) = 2 /\ Cardinality(O \cap N) = 1
           /\ last.inst.name \notin O \cup N
           /\ \A n \in O \cup N : Matching(last.store0, n) # {}

\* C2: updating stored Location A's list from {B, C} to {C, D} ends with no
\* edge A-B, with edges A-C and A-D at the distance computed from the current
\* coordinates, and with every other pair's edge rows as they were.
C2_DiffUpdate ==
    C2_Case =>
        LET a == last.inst.id
            O == DeclaredNames(last.store0[a].conn)
            N == DeclaredNames(last.inst.conn)
            named == {x \in DOMAIN last.store0 : last.store0[x].name \in O \cup N}
        IN  /\ last.outcome = "ok"
            /\ \A x \in DOMAIN last.store0 :
                  last.store0[x].name \in O \ N => RowsOf(edges, a, x) = {}
            /\ \A n \in N : \E x \in Matching(last.store0, n) : \E e \in edges :
                  Joins(e, a, x) /\ e.d = ComputedDistance(last.inst, last.store0[x])
            /\ \A x \in Ids : \A y \in Ids :
                  ~(x = a /\ y \in named) /\ ~(y = a /\ x \in named)
                      => RowsOf(edges, x, y) = RowsOf(last.edges0, x, y)

\* C9: an edge's distance is the sentinel when an endpoint lacks pixel
\* coordinates and the Euclidean distance of the endpoints' pixel
\* coordinates when both have them.
C9_DistanceTracksCoordinates ==
    \A e \in edges :
        (e.l1 \in Stored /\ e.l2 \in Stored)
            => e.d = ComputedDistance(store[e.l1], store[e.l2])

IsNearest == last.op = "nearest"

\* C10: the nearest query returns Locations in ascending order of their
\* distance from the point, each result being closest among the Locations
\* not yet returned, and never a Location without pixel coordinates.
C10_NearestAscending ==
    IsNearest =>
        LET r == last.result
            taken(i) == {r[j] : j \in 1..(i - 1)}
        IN  /\ \A i \in 1..Len(r) : r[i] \in Candidates(store)
            /\ \A i \in 1..Len(r) : \A j \in 1..Len(r) : r[i] = r[j] => i = j
            /\ \A i \in 1..Len(r) : \A c \in Candidates(store) \ taken(i) :
                  DistSq(last.point, store[r[i]]) <= DistSq(last.point, store[c])
            /\ Len(r) = IF Cardinality(Candidates(store)) < last.k
                        THEN Cardinality(Candidates(store)) ELSE last.k

\* C10 witness: a query answered with two Locations at different distances,
\* the one whose name sorts later first, while a Location without pixel
\* coordinates is stored.
C10_Witness ==
    /\ IsNearest
    /\ Len(last.result) >= 2
    /\ DistSq(last.point, store[last.result[1]]) < DistSq(last.point, store[last.result[2]])
    /\ TieBefore(store, last.result[2], last.result[1])
    /\ Stored \ Candidates(store) # {}

BothDone == \A p \in Procs : pc[p] = "done"

\* C7: after two concurrent saves of the same Location with different lists
\* the tables are those that one of the two serial orders of the saves leaves.
C7_ConcurrentSavesSerializable ==
    (BothDone /\ loc[1].inst.conn # loc[2].inst.conn)
        => <<store, edges>> \in { Serial(loc[1].inst, loc[2].inst),
                                  Serial(loc[2].inst, loc[1].inst) }

\* The total distances of the simple paths from at to dest that avoid seen.
RECURSIVE PathCosts(_, _, _, _)
PathCosts(E, at, dest, seen) ==
    IF at = dest THEN {0}
    ELSE UNION {{EdgeDist(E, at, n) + c : c \in PathCosts(E, n, dest, seen \cup {n})} :
                n \in NeighborsOf(E, at) \ seen}

C11_WitnessNoPath ==
    last.op = "path" /\ last.outcome = "NoPath"

\* C12: in every reachable state no two stored Locations have the same name.
C12_NamesStayUnique == NamesUnique(store)

\* C13: the listing returns exactly the stored Locations whose reusable flag
\* is true; with exclude_group = g it returns exactly the reusable Locations
\* whose group_id is not g, those without group_id among them.
C13_ListingReusable ==
    last.op = "list" =>
        /\ last.listed \subseteq Stored
        /\ \A i \in Stored :
              i \in last.listed <=>
                  /\ store[i].reusable
                  /\ (last.group = NoGroup \/ store[i].group_id = NoGroup
                          \/ store[i].group_id # last.group)

\* C13 witness: a listing that excludes a group keeps a reusable Location
\* without group_id, drops a reusable Location of the group, and leaves out a
\* Location of another group that is not reusable.
C13_Witness ==
    /\ last.op = "list" /\ last.group # NoGroup
    /\ \E i \in last.listed : store[i].group_id = NoGroup
    /\ \E i \in Stored \ last.listed : store[i].reusable /\ store[i].group_id = last.group
    /\ \E i \in Stored \ last.listed : ~store[i].reusable /\ store[i].group_id # last.group

\* A save on the first-save path of Location.save, or of a Location that has
\* no stored record yet.
IsFirstSave ==
    IsSave /\ (last.path = "first" \/ last.inst.id \notin DOMAIN last.store0)

\* C14: a Location's first save removes no edge row: it only upserts an edge
\* to each resolved declared neighbor, and with an empty list it leaves the
\* edge table as it was.
C14_FirstSaveRemovesNoEdge ==
    IsFirstSave =>
        /\ EdgePairs(last.edges0) \subseteq EdgePairs(edges)
        /\ \A e \in edges \ last.edges0 :
              \E c \in ResolvedLocs(last) : Joins(e, last.inst.id, c)
        /\ \A e \in last.edges0 \ edges :
              \E c \in ResolvedLocs(last) : Joins(e, last.inst.id, c)
        /\ DeclaredNames(last.inst.conn) = {} => edges = last.edges0
        /\ (last.outcome = "ok" /\ last.path = "first") =>
              \A t \in DeclaredNames(last.inst.conn) :
                  Matching(last.store0, t) # {} =>
                      \E c \in Matching(last.store0, t) : \E e \in edges :
                          /\ Joins(e, last.inst.id, c)
                          /\ e.d = ComputedDistance(last.inst, last.store0[c])

\* C14 witness: the first save of a new Location with two resolvable names
\* added its edges beside an edge that was there before.
C14_Witness ==
    /\ IsSave /\ last.path = "first" /\ last.outcome = "ok"
    /\ last.inst.id \notin DOMAIN last.store0
    /\ last.edges0 # {}
    /\ last.edges0 \subseteq edges
    /\ Cardinality(edges \ last.edges0) >= 2

\* The C15 case: a stored Location is saved under its name with changed
\* pixel coordinates and the declared-neighbor list it is stored with.
C15_Case ==
    /\ IsSave
    /\ last.inst.id \in DOMAIN last.store0
    /\ last.store0[last.inst.id].name = last.inst.name
    /\ last.store0[last.inst.id].conn = last.inst.conn
    /\ <<last.store0[last.inst.id].px, last.store0[last.inst.id].py>>
           # <<last.inst.px, last.inst.py>>

\* C15: after a stored Location is saved with changed pixel coordinates and
\* an unchanged list, the edge to every resolved declared neighbor carries
\* the distance computed from the new coordinates.
C15_CoordinateChangePropagates ==
    C15_Case =>
        \A t \in DeclaredNames(last.inst.conn) :
            \A c \in Matching(last.store0, t) \ {last.inst.id} :
                \E e \in edges :
                    /\ Joins(e, last.inst.id, c)
                    /\ e.d = ComputedDistance(last.inst, last.store0[c])

\* The edge tables in which each save that has been entered has taken effect
\* as a whole or not at all, from the tables of ConcFixture.
WholeSaveEdges ==
    LET s0 == RunFixture(ConcFixture)
        begun == {p \in Procs : pc[p] # "idle"}
        single(inst) == SaveResult(s0.store, s0.edges, inst,
                                   CHOOSE q \in Picks(s0.store) : TRUE).edges
    IN  {s0.edges}
            \cup {single(loc[p].inst) : p \in begun}
            \cup (IF begun = Procs
                  THEN {Serial(loc[1].inst, loc[2].inst)[2],
                        Serial(loc[2].inst, loc[1].inst)[2]}
                  ELSE {})

\* C16: a spatial query that runs beside Location saves reads an edge table
\* that holds all or none of the edge changes of each save, and no edge of a
\* Location whose record is not in the Location table it reads.
C16_QueryReadsWholeSaves ==
    last.op = "read" =>
        /\ last.edges0 \in WholeSaveEdges
        /\ \A e \in last.edges0 :
              e.l1 \in DOMAIN last.store0 /\ e.l2 \in DOMAIN last.store0

\* C20: in every reachable state, the states inside a save among them, both
\* endpoints of every edge row are stored Locations.
C20_EdgeEndpointsStored ==
    \A e \in edges : e.l1 \in Stored /\ e.l2 \in Stored

\* The instance with the other of the two empty values of connected_locs.
OtherEmpty(inst) ==
    [inst EXCEPT !.conn = IF inst.conn = NoneStr THEN EmptyStr ELSE NoneStr]

\* The list a stored Location's record holds before the call.
StoredNames(l) ==
    IF l.inst.id \in DOMAIN l.store0
    THEN DeclaredNames(l.store0[l.inst.id].conn) ELSE {}

\* C17: a save with the empty string and a save with null as connected_locs
\* leave the same edge table, in which every edge to a resolvable previously
\* declared neighbor is gone and none is added; and in any save the edges
\* between the Location and the Locations that neither its previous nor its
\* new list names stay as they were, whatever empty entries the lists hold.
C17_EmptyListAndEmptyNames ==
    IsSave =>
        /\ ~Truthy(last.inst.conn) =>
              /\ \E pick \in Picks(last.store0) :
                    edges = SaveResult(last.store0, last.edges0,
                                       OtherEmpty(last.inst), pick).edges
              /\ edges \subseteq last.edges0
              /\ \A c \in DOMAIN last.store0 :
                    last.store0[c].name \in StoredNames(last)
                        => RowsOf(edges, last.inst.id, c) = {}
        /\ \A c \in DOMAIN last.store0 :
              last.store0[c].name \notin StoredNames(last) \cup DeclaredNames(last.inst.conn)
                  => RowsOf(edges, last.inst.id, c) = RowsOf(last.edges0, last.inst.id, c)

C19_DiffsAgainstOwnRecord ==
    IsSave =>
        /\ Range(last.old_adj) \ {EmptyStr} = StoredNames(last)
        /\ last.outcome = "ok" =>
              \A c \in DOMAIN last.store0 :
                  last.store0[c].name \in StoredNames(last) \ DeclaredNames(last.inst.conn)
                      => RowsOf(edges, last.inst.id, c) = {}

=============================================================================
